---- MODULE Spec2Model ----
(***************************************************************************)
(* Model of app.py, the Streamlit "India Demand Pulse" dashboard.          *)
(*                                                                         *)
(* Every page request re-executes the script top to bottom: line 36        *)
(* `data = load_data()` runs first, then exactly one page branch.          *)
(* load_data is wrapped in st.cache_data and takes no argument, so its     *)
(* body runs once per server process (until the cache is cleared); every   *)
(* later call returns a fresh copy of the memoised frame.                  *)
(*                                                                         *)
(* The store is the file pulse_data.csv.  A row keeps the columns the      *)
(* pages read (timestamp, region, sector and the three feature columns);   *)
(* top_items and payment_modes are written and read back but never         *)
(* inspected by the pages modelled here and are left out.  The field       *)
(* anomaly is the column `data["anomaly"]` of the Alerts page: 0 where a   *)
(* row has no value in it, else the label -1 or 1.                         *)
(*                                                                         *)
(* The file content changes only through save_data; what the world around  *)
(* the server can change is whether read_csv succeeds.  Lines 173-199 of   *)
(* app.py repeat the Citizen View and Export branches after the footer and  *)
(* add no behaviour; the model follows lines 1-171.                        *)
(***************************************************************************)
EXTENDS Integers, Sequences, FiniteSets, TLC

VARIABLES
    store,      \* rows of pulse_data.csv, in file order
    status,     \* "absent" | "ok" | "unreadable": what read_csv meets
    cache,      \* the st.cache_data memo of load_data
    clock,      \* what datetime.datetime.now() gives the next submission
    result      \* what the last script run did and showed

vars == <<store, status, cache, clock, result>>

----------------------------------------------------------------------------
(* Bounds *)

MaxInitRows == 12      \* rows of the largest file the server starts with
MaxSubmits  == 2       \* pulse submissions in one behaviour
FlagFirst   == 1       \* rows 1..FlagFirst and the last row are the rows the
                       \* model lets the forest flag

(* Program constants *)

MinRows == 10          \* `if len(data) < 10`
ContaminationPct == 10 \* IsolationForest(contamination=0.1), in percent

REGIONS == {"Mumbai", "Delhi"}
SECTORS == {"Retail"}

----------------------------------------------------------------------------
(* Cells.  A cell of the file is text; read_csv turns it into a number, a  *)
(* NaN (empty text) or a str (text that is no number); to_csv is the way   *)
(* back.                                                                   *)

FileNum(v) == <<"num", v>>
FileEmpty  == <<"empty", 0>>
FileText   == <<"text", 0>>      \* e.g. abc

DfNum(v) == <<"num", v>>
DfNaN    == <<"nan", 0>>
DfStr    == <<"str", 0>>

ReadCell(c) ==
    CASE c[1] = "num"   -> DfNum(c[2])
      [] c[1] = "empty" -> DfNaN
      [] OTHER          -> DfStr

WriteCell(c) ==
    CASE c[1] = "num" -> FileNum(c[2])
      [] c[1] = "nan" -> FileEmpty
      [] OTHER        -> FileText

ReadRow(r) ==
    [timestamp     |-> r.timestamp,
     region        |-> r.region,
     sector        |-> r.sector,
     visitor_count |-> ReadCell(r.visitor_count),
     queue_time    |-> ReadCell(r.queue_time),
     crowd_index   |-> ReadCell(r.crowd_index),
     anomaly       |-> r.anomaly]

WriteRow(r) ==
    [timestamp     |-> r.timestamp,
     region        |-> r.region,
     sector        |-> r.sector,
     visitor_count |-> WriteCell(r.visitor_count),
     queue_time    |-> WriteCell(r.queue_time),
     crowd_index   |-> WriteCell(r.crowd_index),
     anomaly       |-> r.anomaly]

\* pd.read_csv(DATA_FILE) on a file that parses
read_csv(file) == [i \in 1..Len(file) |-> ReadRow(file[i])]

\* df.to_csv(DATA_FILE, index=False): the file is rewritten from the frame
to_csv(df) == [i \in 1..Len(df) |-> WriteRow(df[i])]

\* the empty frame with the eight fixed columns
EmptyFrame == << >>

----------------------------------------------------------------------------
(* load_data and its memo *)

NoMemo == [loaded |-> FALSE, df |-> EmptyFrame, via |-> "none"]

\* the body of load_data: try read_csv, on any exception the empty frame
load_data_body(file, st) ==
    IF st = "ok" THEN read_csv(file) ELSE EmptyFrame

\* which return statement of the body ran
load_data_via(st) == IF st = "ok" THEN "read" ELSE "except"

\* @st.cache_data: the body runs on a miss only
memo_after_load(c, file, st) ==
    IF c.loaded
    THEN c
    ELSE [loaded |-> TRUE, df |-> load_data_body(file, st), via |-> load_data_via(st)]

\* line 36, `data = load_data()`: a copy of the memoised frame
load_data(c, file, st) == memo_after_load(c, file, st).df

\* the memo handing out the frame itself (as st.cache_resource does): the
\* assignment of the anomaly column lands in the memo
memo_after_assign_NoCopy(c, labelled) == [c EXCEPT !.df = labelled]

\* st.cache_data hands out copies, so `data["anomaly"] = ...` on the copy
\* leaves the memo as it was
memo_after_assign(c, labelled) == c

----------------------------------------------------------------------------
(* save_data *)

save_data(df) == to_csv(df)

----------------------------------------------------------------------------
(* Alerts page: floor, detector, dispatch *)

\* the floor one row too low (`len(data) < 9`)
TooFewRows_OffByOne(data) == Len(data) < MinRows - 1

\* `if len(data) < 10`
TooFewRows(data) == Len(data) < MinRows

\* data[["visitor_count", "queue_time", "crowd_index"]]
features(data) ==
    [i \in 1..Len(data) |->
        <<data[i].visitor_count, data[i].queue_time, data[i].crowd_index>>]

HasKind(X, kind) == \E i \in 1..Len(X) : \E j \in 1..3 : X[i][j][1] = kind

\* fit_predict converts the frame to a float matrix: a str cell such as abc
\* raises ValueError.  A NaN cell raises too where the trees reject missing
\* values and is accepted where they support them: both outcomes are kept.
FitRaises(X)   == HasKind(X, "str") \/ HasKind(X, "nan")
FitProceeds(X) == ~HasKind(X, "str")

\* predict gives -1 to the rows whose score lies strictly below the
\* contamination-percentile of all scores (linear interpolation at position
\* contamination*(n-1)), so at most ceil(contamination*(n-1)) rows get -1;
\* the forest is unseeded, so which rows is not determined.
MaxAnomalies(n) == (ContaminationPct * (n - 1) + 99) \div 100

\* the rows a run of the model may see flagged
Flaggable(n) == {i \in 1..n : i <= FlagFirst \/ i = n}

RECURSIVE SetsUpTo(_, _)
SetsUpTo(P, k) ==
    IF k = 0 THEN {{}}
    ELSE LET prev == SetsUpTo(P, k - 1)
         IN  prev \cup {S \cup {i} : S \in prev, i \in P}

\* the label arrays fit_predict returns for n rows, one per row
fit_predict(n) ==
    {[i \in 1..n |-> IF i \in S THEN -1 ELSE 1] :
        S \in SetsUpTo(Flaggable(n), MaxAnomalies(n))}

\* data["anomaly"] = labels
assign_anomaly(data, labels) ==
    [i \in 1..Len(data) |-> [data[i] EXCEPT !.anomaly = labels[i]]]

\* data[data["anomaly"] == -1], as the row positions it keeps, in order
RECURSIVE alerts(_, _)
alerts(df, i) ==
    IF i > Len(df) THEN << >>
    ELSE IF df[i].anomaly = -1 THEN <<i>> \o alerts(df, i + 1)
    ELSE alerts(df, i + 1)

\* send_alert_email without its try/except: a failed delivery raises
send_alert_email_NoCatch(smtp) ==
    IF smtp = "ok"
    THEN [shown |-> "delivered", raised |-> FALSE]
    ELSE [shown |-> "failed",    raised |-> TRUE]

\* send_alert_email: smtp is what SMTP_SSL/login/sendmail do ("ok" or
\* "fail"); an exception is caught and shown with st.error
send_alert_email(smtp) ==
    IF smtp = "ok"
    THEN [shown |-> "delivered", raised |-> FALSE]
    ELSE [shown |-> "failed",    raised |-> FALSE]

\* the loop with one retry after a failed delivery
RECURSIVE dispatch_RetryOnFail(_, _, _, _)
dispatch_RetryOnFail(df, rows, smtp, k) ==
    IF k > Len(rows) THEN [attempts |-> << >>, raised |-> FALSE]
    ELSE LET r    == send_alert_email(smtp[k])
             this == [row |-> rows[k], timestamp |-> df[rows[k]].timestamp,
                      shown |-> r.shown]
             rest == dispatch_RetryOnFail(df, rows, smtp, k + 1)
         IN  [attempts |-> (IF r.shown = "failed" THEN <<this, this>> ELSE <<this>>)
                              \o rest.attempts,
              raised |-> rest.raised]

\* the loop `for _, row in alerts.iterrows()`: one send_alert_email call per
\* row; an exception leaving the call would end the script run
RECURSIVE dispatch(_, _, _, _)
dispatch(df, rows, smtp, k) ==
    IF k > Len(rows) THEN [attempts |-> << >>, raised |-> FALSE]
    ELSE LET r    == send_alert_email(smtp[k])
             this == [row |-> rows[k], timestamp |-> df[rows[k]].timestamp,
                      shown |-> r.shown]
         IN  IF r.raised
             THEN [attempts |-> <<this>>, raised |-> TRUE]
             ELSE LET rest == dispatch(df, rows, smtp, k + 1)
                  IN  [attempts |-> <<this>> \o rest.attempts, raised |-> rest.raised]

\* some row alerted in this run was alerted in the run before it too
Resent(attempts, before) ==
    \E a \in 1..Len(attempts) : \E b \in 1..Len(before) :
        attempts[a].timestamp = before[b].timestamp

----------------------------------------------------------------------------
(* The file the server finds when it starts *)

InitSizes == {0, MinRows - 1, MinRows, MaxInitRows}

\* an earlier submission; bad is "none", or what the crowd_index cell of the
\* first row holds instead of a number
InitRow(i, bad) ==
    [timestamp     |-> i,
     region        |-> "Mumbai",
     sector        |-> "Retail",
     visitor_count |-> FileNum(20),
     queue_time    |-> FileNum(5),
     crowd_index   |-> IF i = 1 /\ bad = "text"  THEN FileText
                       ELSE IF i = 1 /\ bad = "empty" THEN FileEmpty
                       ELSE FileNum(3),
     anomaly       |-> 0]

InitFile(n, bad) == [i \in 1..n |-> InitRow(i, bad)]

NoResult ==
    [page |-> "none", outcome |-> "none", data |-> << >>, file |-> << >>,
     fstatus |-> "none", via |-> "none", labels |-> << >>, attempts |-> << >>,
     again |-> FALSE]

Init ==
    /\ \E n \in InitSizes :
         \E bad \in (IF n = 0 THEN {"none"} ELSE {"none", "text", "empty"}) :
            /\ store = InitFile(n, bad)
            /\ status \in (IF n = 0 THEN {"absent", "ok"} ELSE {"ok", "unreadable"})
    /\ cache = NoMemo
    /\ clock = MaxInitRows + 1
    /\ result = NoResult

----------------------------------------------------------------------------
(* Script runs.  Each is one request: line 36, then one page branch. *)

\* what every run records: the page, the frame line 36 gave it, and the file
\* as it was when the run began
Ran(page, memo, outcome) ==
    [page |-> page, outcome |-> outcome, data |-> memo.df, file |-> store,
     fstatus |-> status, via |-> memo.via, labels |-> << >>, attempts |-> << >>,
     again |-> FALSE]

ViewPages == {"Sector Dashboard", "Citizen View", "Export", "Recent Submissions"}

\* the pages that only render `data`
ViewPage(page) ==
    LET memo == memo_after_load(cache, store, status)
    IN  /\ cache' = memo
        /\ result' = Ran(page, memo, "viewed")
        /\ UNCHANGED <<store, status, clock>>

new_entry(region, sector, visitor_count, queue_time, crowd_index) ==
    [timestamp     |-> clock,
     region        |-> region,
     sector        |-> sector,
     visitor_count |-> DfNum(visitor_count),
     queue_time    |-> DfNum(queue_time),
     crowd_index   |-> DfNum(crowd_index),
     anomaly       |-> 0]

\* pd.concat([data, new_entry], ignore_index=True)
concat(data, entry) == data \o <<entry>>

\* Submit Pulse with the form submitted; to_csv creates or rewrites the file
SubmitPulse(region, sector, visitor_count, queue_time, crowd_index) ==
    LET memo         == memo_after_load(cache, store, status)
        data         == memo.df
        updated_data == concat(data, new_entry(region, sector, visitor_count,
                                               queue_time, crowd_index))
    IN  /\ clock <= MaxInitRows + MaxSubmits
        /\ store' = save_data(updated_data)
        /\ status' = "ok"
        /\ cache' = memo
        /\ clock' = clock + 1
        /\ result' = Ran("Submit Pulse", memo, "submitted")

\* the same, where the file that cannot be read cannot be written either:
\* to_csv raises and the run ends with the exception shown
SubmitPulseWriteFails ==
    LET memo == memo_after_load(cache, store, status)
    IN  /\ clock <= MaxInitRows + MaxSubmits
        /\ status = "unreadable"
        /\ cache' = memo
        /\ result' = Ran("Submit Pulse", memo, "save_error")
        /\ UNCHANGED <<store, status, clock>>

\* Alerts, `len(data) < 10`: st.warning and nothing else
AlertsInsufficient ==
    LET memo == memo_after_load(cache, store, status)
    IN  /\ TooFewRows(memo.df)
        /\ cache' = memo
        /\ result' = Ran("Alerts", memo, "insufficient")
        /\ UNCHANGED <<store, status, clock>>

\* Alerts, fit_predict raises: the exception ends the run at line 125
AlertsFitRaises ==
    LET memo == memo_after_load(cache, store, status)
    IN  /\ ~TooFewRows(memo.df)
        /\ FitRaises(features(memo.df))
        /\ cache' = memo
        /\ result' = Ran("Alerts", memo, "error")
        /\ UNCHANGED <<store, status, clock>>

\* Alerts, detection and dispatch
AlertsDetect ==
    \E memo \in {memo_after_load(cache, store, status)} :
       LET data == memo.df
       IN  /\ ~TooFewRows(data)
           /\ FitProceeds(features(data))
           /\ \E labels \in fit_predict(Len(data)) :
               \E labelled \in {assign_anomaly(data, labels)} :
               \E rows \in {alerts(labelled, 1)} :
               \E smtp \in [1..Len(rows) -> {"ok", "fail"}] :
               \E d \in {dispatch(labelled, rows, smtp, 1)} :
                  /\ cache' = memo_after_assign(memo, labelled)
                  /\ result' = [Ran("Alerts", memo,
                                     IF d.raised THEN "error" ELSE "done")
                                  EXCEPT !.labels = labels,
                                         !.attempts = d.attempts,
                                         !.again = Resent(d.attempts, result.attempts)]
           /\ UNCHANGED <<store, status, clock>>

----------------------------------------------------------------------------
(* The world around the server *)

\* the file stops being readable (locked, permissions, damaged)
BecomesUnreadable ==
    /\ status = "ok"
    /\ status' = "unreadable"
    /\ UNCHANGED <<store, cache, clock, result>>

\* and is readable again
BecomesReadable ==
    /\ status = "unreadable"
    /\ status' = "ok"
    /\ UNCHANGED <<store, cache, clock, result>>

\* the server process restarts, or the cache is cleared from the menu
ClearCache ==
    /\ cache.loaded
    /\ cache' = NoMemo
    /\ UNCHANGED <<store, status, clock, result>>

Next ==
    \/ \E region \in REGIONS, sector \in SECTORS :
          SubmitPulse(region, sector, 40, 90, 10)
    \/ SubmitPulseWriteFails
    \/ \E page \in ViewPages : ViewPage(page)
    \/ AlertsInsufficient
    \/ AlertsFitRaises
    \/ AlertsDetect
    \/ BecomesUnreadable
    \/ BecomesReadable
    \/ ClearCache

Spec == Init /\ [][Next]_vars

----------------------------------------------------------------------------
(* Vocabulary of the properties *)

IsPrefix(a, b) == Len(a) <= Len(b) /\ SubSeq(b, 1, Len(a)) = a

AlertsRun == result.page = "Alerts"

\* the positions labelled -1, in order
RECURSIVE AnomalousFrom(_, _)
AnomalousFrom(labels, i) ==
    IF i > Len(labels) THEN << >>
    ELSE IF labels[i] = -1 THEN <<i>> \o AnomalousFrom(labels, i + 1)
    ELSE AnomalousFrom(labels, i + 1)

AttemptRows == [k \in 1..Len(result.attempts) |-> result.attempts[k].row]

NothingProduced == result.labels = << >> /\ result.attempts = << >>

\* every feature cell of the file is a number
AllNumeric(file) ==
    \A i \in 1..Len(file) :
        /\ file[i].visitor_count[1] = "num"
        /\ file[i].queue_time[1] = "num"
        /\ file[i].crowd_index[1] = "num"

\* some feature cell of the file is text that is no number
SomeNonNumeric(file) ==
    \E i \in 1..Len(file) :
        \/ file[i].visitor_count[1] = "text"
        \/ file[i].queue_time[1] = "text"
        \/ file[i].crowd_index[1] = "text"

----------------------------------------------------------------------------
(* C1: an Alerts run on a store of fewer than 10 rows ends in the           *)
(* insufficient-data outcome: no detector call, no label, no call of        *)
(* send_alert_email.                                                        *)
C1_FewRowsInsufficient ==
    (AlertsRun /\ Len(result.file) < MinRows)
        => (result.outcome = "insufficient" /\ NothingProduced)

C1_Witness ==
    /\ AlertsRun
    /\ result.fstatus = "ok"
    /\ Len(result.file) = MinRows - 1
    /\ result.outcome = "insufficient"

(* C2: the store is append-only: whatever a run found in the file is still *)
(* there afterwards, unchanged and in place, and a successful submission    *)
(* adds exactly one row.  Stated for the runs that find the file readable.  *)
C2_AppendOnly ==
    result.fstatus = "ok"
        => /\ IsPrefix(result.file, store)
           /\ result.outcome = "submitted" => Len(store) = Len(result.file) + 1

(* C3: an Alerts run leaves the file as it found it, whatever its outcome, *)
(* and no row of the file ever carries an anomaly label.                    *)
C3_AlertsReadOnly ==
    /\ AlertsRun => store = result.file
    /\ \A i \in 1..Len(store) : store[i].anomaly = 0

C3_Witness ==
    /\ AlertsRun
    /\ result.outcome = "done"
    /\ result.again
    /\ \E k \in 1..Len(result.attempts) : result.attempts[k].shown = "failed"
    /\ store = result.file

(* C4: a run that labelled N rows anomalous completes and reports one      *)
(* delivery outcome, delivered or failed, for each of the N rows, whichever *)
(* deliveries fail.                                                         *)
C4_FailuresIsolated ==
    (AlertsRun /\ result.labels # << >>)
        => /\ result.outcome = "done"
           /\ Len(result.attempts) = Len(AnomalousFrom(result.labels, 1))
           /\ \A k \in 1..Len(result.attempts) :
                 result.attempts[k].shown \in {"delivered", "failed"}

C4_Witness ==
    /\ AlertsRun
    /\ result.outcome = "done"
    /\ Len(result.attempts) = 2
    /\ result.attempts[1].shown = "failed"
    /\ result.attempts[2].shown = "delivered"

(* C5: an Alerts run on a readable store of at least 10 well-formed rows   *)
(* labels every row of the store: one label, -1 or 1, per row.              *)
C5_EveryRowLabelled ==
    (AlertsRun /\ result.fstatus = "ok" /\ Len(result.file) >= MinRows
       /\ AllNumeric(result.file))
        => /\ Len(result.labels) = Len(result.file)
           /\ \A i \in 1..Len(result.labels) : result.labels[i] \in {-1, 1}

(* C6: the frame an Alerts run works on is the content of the store at the *)
(* time of that run.                                                        *)
C6_WorksOnCurrentStore ==
    AlertsRun => result.data = load_data_body(result.file, result.fstatus)

(* C7: an Alerts run on a readable store of at least 10 rows, one of them  *)
(* with a non-numeric feature cell, ends with an error, without labels and  *)
(* without a call of send_alert_email.                                      *)
C7_SchemaErrorAborts ==
    (AlertsRun /\ result.fstatus = "ok" /\ Len(result.file) >= MinRows
       /\ SomeNonNumeric(result.file))
        => (result.outcome = "error" /\ NothingProduced)

(* C8: when the store cannot be read, an Alerts run ends with an error and *)
(* no partial result, and a run that works on the outcome of a failed read  *)
(* leaves every row of the store in place.                                  *)
C8_ReadErrorFatalStoreKept ==
    /\ (AlertsRun /\ result.fstatus = "unreadable")
          => (result.outcome = "error" /\ NothingProduced)
    /\ result.via = "except" => IsPrefix(result.file, store)

(* C9: an Alerts run while the file is absent or unreadable ends in the    *)
(* insufficient-data outcome, as on an empty store, with no label and no    *)
(* alert.  Stated for files whose rows are all well formed.                 *)
C9_UnreadableIsEmpty ==
    (AlertsRun /\ result.fstatus \in {"absent", "unreadable"}
       /\ AllNumeric(result.file))
        => (result.outcome = "insufficient" /\ NothingProduced)

(* C10: a run that reaches dispatch calls send_alert_email once for each   *)
(* row it labelled -1, in row order, and for no other row, whatever was     *)
(* alerted in the run before.                                               *)
C10_OncePerAnomaly ==
    (AlertsRun /\ result.labels # << >>)
        => /\ AttemptRows = AnomalousFrom(result.labels, 1)
           /\ \A k \in 1..Len(result.attempts) :
                 result.attempts[k].timestamp
                     = result.data[result.attempts[k].row].timestamp

C10_Witness ==
    /\ AlertsRun
    /\ result.again
    /\ Len(result.attempts) >= 1
    /\ \E i \in 1..Len(result.labels) : result.labels[i] = 1

====
